---- MODULE Spec2Model ----
(***************************************************************************)
(* Model of the CESR primitive code tables and the Matter value            *)
(* (src/core/matter.rs, src/error/mod.rs, src/error/error.rs).             *)
(*                                                                         *)
(* A character is a one-character string; a &str / String is a sequence    *)
(* of characters; a Vec<u8> is a sequence of integers in 0..255.           *)
(* The state is the last call made on the module's API: which operation,   *)
(* its arguments and the value it returned.                                *)
(***************************************************************************)
EXTENDS Integers, Sequences, FiniteSets, TLC

VARIABLES op, arg, ret

vars == <<op, arg, ret>>

\* ---------------------------------------------------------------- bounds
MaxRawLen == 32

\* ------------------------------------------------------- Option / Result
Some(x) == [some |-> TRUE, val |-> x]

None == [some |-> FALSE]

Ok(x) == [ok |-> TRUE, val |-> x]

Err(e) == [ok |-> FALSE, err |-> e]

\* ------------------------------------------------------------ error type
\* variants of crate::error::Error, the type matter.rs imports
ErrorVariants == {"MatterError"}

\* variants of crate::error::error::Error
ErrorVariantsInner == {"Message", "MatterError"}

MatterError(msg) == [variant |-> "MatterError", msg |-> msg]

\* --------------------------------------------------------------- Codex
MatterCodex ==
  {"Ed25519Seed", "Ed25519N", "X25519", "Ed25519", "Blake3_256",
   "X25519Private", "X25519CipherSeed", "X25519CipherSalt", "Salt128",
   "Ed25519Sig"}

code_dup(v) ==
  CASE v = "Ed25519Seed"      -> <<"A">>
    [] v = "Ed25519N"         -> <<"A">>
    [] v = "X25519"           -> <<"C">>
    [] v = "Ed25519"          -> <<"D">>
    [] v = "Blake3_256"       -> <<"E">>
    [] v = "X25519Private"    -> <<"O">>
    [] v = "X25519CipherSeed" -> <<"P">>
    [] v = "X25519CipherSalt" -> <<"1", "A", "A", "H">>
    [] v = "Salt128"          -> <<"0", "A">>
    [] v = "Ed25519Sig"       -> <<"0", "B">>

code(v) ==
  CASE v = "Ed25519Seed"      -> <<"A">>
    [] v = "Ed25519N"         -> <<"B">>
    [] v = "X25519"           -> <<"C">>
    [] v = "Ed25519"          -> <<"D">>
    [] v = "Blake3_256"       -> <<"E">>
    [] v = "X25519Private"    -> <<"O">>
    [] v = "X25519CipherSeed" -> <<"P">>
    [] v = "X25519CipherSalt" -> <<"1", "A", "A", "H">>
    [] v = "Salt128"          -> <<"0", "A">>
    [] v = "Ed25519Sig"       -> <<"0", "B">>

\* -------------------------------------------------------------- Sizage
Sizage(hs, ss, fs, ls) == [hs |-> hs, ss |-> ss, fs |-> fs, ls |-> ls]

size_odd(v) ==
  LET c == code(v) IN
  CASE c = <<"A">> -> Ok(Sizage(1, 0, 44, 0))
    [] c = <<"B">> -> Ok(Sizage(1, 0, 44, 0))
    [] c = <<"C">> -> Ok(Sizage(1, 0, 44, 0))
    [] c = <<"D">> -> Ok(Sizage(1, 0, 44, 0))
    [] c = <<"E">> -> Ok(Sizage(1, 0, 43, 0))
    [] c = <<"O">> -> Ok(Sizage(1, 0, 44, 0))
    [] c = <<"P">> -> Ok(Sizage(1, 0, 124, 0))
    [] c = <<"1", "A", "A", "H">> -> Ok(Sizage(2, 0, 24, 0))
    [] c = <<"0", "A">> -> Ok(Sizage(1, 0, 88, 0))
    [] c = <<"0", "B">> -> Ok(Sizage(4, 0, 100, 0))
    [] OTHER -> Err(MatterError("Unknown code"))

size_missing(v) ==
  LET c == code(v) IN
  CASE c = <<"A">> -> Ok(Sizage(1, 0, 44, 0))
    [] c = <<"B">> -> Ok(Sizage(1, 0, 44, 0))
    [] c = <<"C">> -> Ok(Sizage(1, 0, 44, 0))
    [] c = <<"D">> -> Ok(Sizage(1, 0, 44, 0))
    [] c = <<"E">> -> Ok(Sizage(1, 0, 44, 0))
    [] c = <<"O">> -> Ok(Sizage(1, 0, 44, 0))
    [] c = <<"1", "A", "A", "H">> -> Ok(Sizage(2, 0, 24, 0))
    [] c = <<"0", "A">> -> Ok(Sizage(1, 0, 88, 0))
    [] c = <<"0", "B">> -> Ok(Sizage(4, 0, 100, 0))
    [] OTHER -> Err(MatterError("Unknown code"))

size(v) ==
  LET c == code(v) IN
  CASE c = <<"A">> -> Ok(Sizage(1, 0, 44, 0))
    [] c = <<"B">> -> Ok(Sizage(1, 0, 44, 0))
    [] c = <<"C">> -> Ok(Sizage(1, 0, 44, 0))
    [] c = <<"D">> -> Ok(Sizage(1, 0, 44, 0))
    [] c = <<"E">> -> Ok(Sizage(1, 0, 44, 0))
    [] c = <<"O">> -> Ok(Sizage(1, 0, 44, 0))
    [] c = <<"P">> -> Ok(Sizage(1, 0, 124, 0))
    [] c = <<"1", "A", "A", "H">> -> Ok(Sizage(2, 0, 24, 0))
    [] c = <<"0", "A">> -> Ok(Sizage(1, 0, 88, 0))
    [] c = <<"0", "B">> -> Ok(Sizage(4, 0, 100, 0))
    [] OTHER -> Err(MatterError("Unknown code"))

\* --------------------------------------------------------------- Hards
HARDS_dash ==
  [c \in {"A", "B", "C", "D", "E", "F", "G", "H", "I", "J", "K", "L", "M",
          "N", "O", "P", "Q", "R", "S", "T", "U", "V", "W", "X", "Y", "Z",
          "a", "b", "c", "d", "e", "f", "g", "h", "i", "j", "k", "l", "m",
          "n", "o", "p", "q", "r", "s", "t", "u", "v", "w", "x", "y", "z",
          "-"} |-> 1]
  @@ ("0" :> 2) @@ ("1" :> 4) @@ ("2" :> 4) @@ ("3" :> 4) @@ ("4" :> 2)
  @@ ("5" :> 2) @@ ("6" :> 2) @@ ("7" :> 4) @@ ("8" :> 4) @@ ("9" :> 4)

HARDS_zero ==
  [c \in {"A", "B", "C", "D", "E", "F", "G", "H", "I", "J", "K", "L", "M",
          "N", "O", "P", "Q", "R", "S", "T", "U", "V", "W", "X", "Y", "Z",
          "a", "b", "c", "d", "e", "f", "g", "h", "i", "j", "k", "l", "m",
          "n", "o", "p", "q", "r", "s", "t", "u", "v", "w", "x", "y", "z"}
     |-> 1]
  @@ ("0" :> 4) @@ ("1" :> 4) @@ ("2" :> 4) @@ ("3" :> 4) @@ ("4" :> 2)
  @@ ("5" :> 2) @@ ("6" :> 2) @@ ("7" :> 4) @@ ("8" :> 4) @@ ("9" :> 4)

HARDS ==
  [c \in {"A", "B", "C", "D", "E", "F", "G", "H", "I", "J", "K", "L", "M",
          "N", "O", "P", "Q", "R", "S", "T", "U", "V", "W", "X", "Y", "Z",
          "a", "b", "c", "d", "e", "f", "g", "h", "i", "j", "k", "l", "m",
          "n", "o", "p", "q", "r", "s", "t", "u", "v", "w", "x", "y", "z"}
     |-> 1]
  @@ ("0" :> 2) @@ ("1" :> 4) @@ ("2" :> 4) @@ ("3" :> 4) @@ ("4" :> 2)
  @@ ("5" :> 2) @@ ("6" :> 2) @@ ("7" :> 4) @@ ("8" :> 4) @@ ("9" :> 4)

\* HashMap::get on the table
HARDS_get(c) == IF c \in DOMAIN HARDS THEN Some(HARDS[c]) ELSE None

\* -------------------------------------------------------------- Matter
Fields == {"raw", "code", "qb64b", "qb64", "qb2", "strip"}

Matter_new(raw, c, qb64b, qb64, qb2, strip) ==
  [raw   |-> Some(raw),
   code  |-> c,
   qb64b |-> Some(qb64b),
   qb64  |-> Some(qb64),
   qb2   |-> Some(qb2),
   strip |-> Some(strip)]

Matter_default_strip ==
  [raw   |-> Some(<<>>),
   code  |-> code("Ed25519N"),
   qb64b |-> Some(<<>>),
   qb64  |-> Some(<<>>),
   qb2   |-> Some(<<>>),
   strip |-> Some(TRUE)]

Matter_default ==
  [raw   |-> Some(<<>>),
   code  |-> code("Ed25519N"),
   qb64b |-> Some(<<>>),
   qb64  |-> Some(<<>>),
   qb2   |-> Some(<<>>),
   strip |-> Some(FALSE)]

\* struct-update syntax  Matter { f: v, .., ..Default::default() }
\* ov maps the named fields to their values
Matter_update(ov) ==
  [f \in Fields |-> IF f \in DOMAIN ov THEN ov[f] ELSE Matter_default[f]]

\* ------------------------------------------------------ call arguments
\* characters looked up in HARDS: the base-64 alphabet, '=' and ' '
Chars ==
  {"A", "B", "C", "D", "E", "F", "G", "H", "I", "J", "K", "L", "M",
   "N", "O", "P", "Q", "R", "S", "T", "U", "V", "W", "X", "Y", "Z",
   "a", "b", "c", "d", "e", "f", "g", "h", "i", "j", "k", "l", "m",
   "n", "o", "p", "q", "r", "s", "t", "u", "v", "w", "x", "y", "z",
   "0", "1", "2", "3", "4", "5", "6", "7", "8", "9",
   "-", "_", "+", "/", "=", " "}

\* raw payloads: n zero bytes, and b"a" of test_matter_new
Raws == {[i \in 1..n |-> 0] : n \in 0..MaxRawLen} \cup {<<97>>}

\* code strings handed to Matter::new: the Codex codes and two others
CodeStrs == {code(v) : v \in MatterCodex} \cup {<<"Z">>, <<>>}

\* (qb64b, qb64, qb2): all empty, or the values of test_matter_new
Reprs ==
  {[qb64b |-> <<>>, qb64 |-> <<>>, qb2 |-> <<>>],
   [qb64b |-> <<98>>, qb64 |-> <<"q", "b", "6", "4">>, qb2 |-> <<99>>]}

\* values a struct literal may give to each field
Overrides ==
  [raw   : {None, Some(<<97>>)},
   code  : {code("X25519CipherSeed"), code("Ed25519Seed")},
   qb64b : {None, Some(<<98>>)},
   qb64  : {None, Some(<<"q", "b", "6", "4">>)},
   qb2   : {None, Some(<<99>>)},
   strip : {None, Some(TRUE)}]

\* ------------------------------------------------------------- actions
Init ==
  /\ op = "start"
  /\ arg = <<>>
  /\ ret = <<>>

CallCode ==
  \E v \in MatterCodex :
    /\ op' = "code"
    /\ arg' = v
    /\ ret' = code(v)

CallSize ==
  \E v \in MatterCodex :
    /\ op' = "size"
    /\ arg' = v
    /\ ret' = size(v)

CallHardsGet ==
  \E c \in Chars :
    /\ op' = "hards_get"
    /\ arg' = c
    /\ ret' = HARDS_get(c)

CallMatterNew ==
  \E raw \in Raws, c \in CodeStrs, r \in Reprs, strip \in BOOLEAN :
    /\ op' = "new"
    /\ arg' = [raw |-> raw, code |-> c, qb64b |-> r.qb64b, qb64 |-> r.qb64,
               qb2 |-> r.qb2, strip |-> strip]
    /\ ret' = Matter_new(raw, c, r.qb64b, r.qb64, r.qb2, strip)

CallMatterDefault ==
  /\ op' = "default"
  /\ arg' = <<>>
  /\ ret' = Matter_default

CallMatterUpdate ==
  \E F \in SUBSET Fields, o \in Overrides :
    LET ov == [f \in F |-> o[f]] IN
      /\ op' = "update"
      /\ arg' = ov
      /\ ret' = Matter_update(ov)

Next ==
  \/ CallCode
  \/ CallSize
  \/ CallHardsGet
  \/ CallMatterNew
  \/ CallMatterDefault
  \/ CallMatterUpdate

Spec == Init /\ [][Next]_vars

\* ---------------------------------------------------- tables of the tests
\* the strings test_codes asserts
test_codes ==
  [v \in MatterCodex |->
     CASE v = "Ed25519Seed"      -> <<"A">>
       [] v = "Ed25519N"         -> <<"B">>
       [] v = "X25519"           -> <<"C">>
       [] v = "Ed25519"          -> <<"D">>
       [] v = "Blake3_256"       -> <<"E">>
       [] v = "X25519Private"    -> <<"O">>
       [] v = "X25519CipherSeed" -> <<"P">>
       [] v = "X25519CipherSalt" -> <<"1", "A", "A", "H">>
       [] v = "Salt128"          -> <<"0", "A">>
       [] v = "Ed25519Sig"       -> <<"0", "B">>]

\* the (hs, ss, fs, ls) test_size asserts
test_size ==
  [v \in MatterCodex |->
     CASE v \in {"Ed25519Seed", "Ed25519N", "X25519", "Ed25519",
                 "Blake3_256", "X25519Private"} -> <<1, 0, 44, 0>>
       [] v = "X25519CipherSeed" -> <<1, 0, 124, 0>>
       [] v = "X25519CipherSalt" -> <<2, 0, 24, 0>>
       [] v = "Salt128"          -> <<1, 0, 88, 0>>
       [] v = "Ed25519Sig"       -> <<4, 0, 100, 0>>]

\* ================================================================ claims

\* C1: for every Codex variant, the HARDS entry of the first character of
\* its code equals the hs of the Sizage its size() returns.
\* The code breaks it for 1AAH (HARDS 4, hs 2), 0A (2, 1) and 0B (2, 4).
C1_HeaderLenIsHs ==
  op = "size" =>
    /\ ret.ok
    /\ HARDS_get(Head(code(arg))) = Some(ret.val.hs)

\* C2: every Sizage returned by size() has fs a multiple of 4 and
\* fs >= hs + ss.
C2_TotalLength ==
  (op = "size" /\ ret.ok) =>
    /\ ret.val.fs % 4 = 0
    /\ ret.val.fs >= ret.val.hs + ret.val.ss

C2_Witness == op = "size" /\ arg = "X25519CipherSalt" /\ ret.ok

\* C3: code() returns, for each of the ten variants, the string the test
\* asserts, and no other variant has the same string.
C3_CodeInjective ==
  op = "code" =>
    /\ ret = test_codes[arg]
    /\ Len(ret) >= 1
    /\ \A w \in MatterCodex \ {arg} : code(w) # ret

C3_Witness == op = "code" /\ arg = "Ed25519N" /\ ret = <<"B">>

C5_HardsAlphabet ==
  LET Upper == {"A", "B", "C", "D", "E", "F", "G", "H", "I", "J", "K",
                "L", "M", "N", "O", "P", "Q", "R", "S", "T", "U", "V",
                "W", "X", "Y", "Z"}
      Lower == {"a", "b", "c", "d", "e", "f", "g", "h", "i", "j", "k",
                "l", "m", "n", "o", "p", "q", "r", "s", "t", "u", "v",
                "w", "x", "y", "z"}
      Digit == {"0", "1", "2", "3", "4", "5", "6", "7", "8", "9"}
  IN op = "hards_get" =>
       /\ ret.some <=> arg \in Upper \cup Lower \cup Digit
       /\ arg \in Upper \cup Lower => ret = Some(1)
       /\ arg \in Digit => ret \in {Some(2), Some(4)}

C5_Witness == op = "hards_get" /\ arg = "-" /\ ~ret.some

\* C6: for every Codex variant, the HARDS entry of the first character of
\* its code equals the number of characters of the code.
C6_HardsIsCodeLen ==
  op = "code" => HARDS_get(Head(ret)) = Some(Len(ret))

C6_Witness == op = "code" /\ arg = "Salt128" /\ Len(ret) = 2

\* C8: building a Matter from (raw, code) fails when the code has no
\* Sizage or when the raw length is not the payload size of the code's
\* Sizage, (fs - hs - ss) * 3/4 - ls; no Matter is produced then.
\* Matter::new returns a Matter for every input.
C8_NewRejects ==
  LET known == {v \in MatterCodex : code(v) = arg.code /\ size(v).ok}
      payload(s) == ((s.fs - s.hs - s.ss) * 3) \div 4 - s.ls
      valid == \E v \in known : Len(arg.raw) = payload(size(v).val)
  IN op = "new" =>
       (~valid => ("ok" \in DOMAIN ret /\ ~ret.ok))

\* C9: the fallible operations report failure through one error type whose
\* values tell apart at least four kinds of failure (unknown code,
\* raw-length mismatch, truncated input, invalid header character).
\* Neither Error enum has four variants, and the only message the code
\* builds is "Unknown code".
C9_ErrorSurface ==
  op \in {"size", "new"} =>
    \E t \in {ErrorVariants, ErrorVariantsInner} : Cardinality(t) >= 4

\* C10: the default Matter has empty raw, code "B", empty qb64, qb64b and
\* qb2, strip false; a struct literal overriding some fields on top of the
\* default leaves every other field at its default value.
C10_DefaultFrame ==
  LET dflt == [raw   |-> Some(<<>>),
               code  |-> <<"B">>,
               qb64b |-> Some(<<>>),
               qb64  |-> Some(<<>>),
               qb2   |-> Some(<<>>),
               strip |-> Some(FALSE)]
  IN /\ op = "default" => ret = dflt
     /\ op = "update" =>
          /\ DOMAIN ret = Fields
          /\ \A f \in Fields \ DOMAIN arg : ret[f] = dflt[f]

C10_Witness ==
  /\ op = "update"
  /\ DOMAIN arg = {"qb64"}
  /\ ret.qb64 = Some(<<"q", "b", "6", "4">>)
  /\ ret.strip = Some(FALSE)

====
